---- MODULE Spec2Model ----
(***************************************************************************)
(* Model of the OND Money mock ledger (src/server.js): a json-server/lowdb *)
(* store (collections banks, wallets, transactions, events, idempotency)   *)
(* and the synchronous Express handlers that read and write it.            *)
(*                                                                         *)
(* Scheduling: Node runs each handler to completion on one thread and      *)
(* lowdb's write() is synchronous, so a handler is one atomic action; the  *)
(* requests of concurrent clients are handled in any order.                *)
(*                                                                         *)
(* Money: amounts and balances are integers counting thousandths (0.001)   *)
(* of the currency unit, so that Number(x.toFixed(2)) is a real rounding   *)
(* to the nearest multiple of 10.  The amounts and balances drawn (0.004,  *)
(* 0.80, 0.126 and multiples of 0.01) never give a sum or a difference     *)
(* half-way between two hundredths, so the rounding below is the one       *)
(* toFixed performs, whatever the binary representation error of a double. *)
(*                                                                         *)
(* Not modelled: ownerId/ownerName, createdAt/updatedAt of banks and       *)
(* wallets, bank name/currency, the API-key gate (every request is taken   *)
(* to have passed it) and the raw json-server router of line 756.          *)
(***************************************************************************)
EXTENDS Integers, Sequences, FiniteSets, TLC

\* banks .. idempotency: the collections of db.json; now: Date.now(); req and
\* resp: the last request taken up and the response sent to it; up: the process
\* is running; handled: the number of requests taken up so far (it only bounds
\* the exploration); inflight: for each client connection, the request it has
\* sent and that the server has not taken up yet.
VARIABLES banks, wallets, transactions, events, idempotency, now, req, resp, up,
          handled, inflight

vars ==
  <<banks, wallets, transactions, events, idempotency, now, req, resp, up, handled,
    inflight>>
store == <<banks, wallets, transactions, events, idempotency>>

(***************************************************************************)
(* Bounds of the model.                                                    *)
(***************************************************************************)
MaxRequests == 3
MaxClock == 1

WalletIds == {"W1", "W2", "W3"}
BankIds == {"B1", "B2"}
\* 0.004 and 0.80 of the currency unit.
ValidAmounts == {4, 800}
InvalidAmounts == {0, -800}
IdemKeys == {"", "K1"}
\* Balances a PUT or PATCH body carries: any number is taken (0, 0.126, -0.80).
PutBalances == {0, 126, -800}

\* Request bodies: the well-formed requests over the small sets above, and the
\* malformed variants of one of them (a field missing or an amount not > 0).
CreditRequests ==
  [walletId : {"W1", "W2"}, amount : ValidAmounts, reference : {"R1"}]
    \cup [walletId : {"W3"}, amount : {800}, reference : {"R1"}]
    \cup [walletId : {"W1"}, amount : InvalidAmounts, reference : {"R1"}]
    \cup [walletId : {"W1"}, amount : {800}, reference : {""}]

TransferRequests ==
  [sourceWalletId : {"W1"}, destinationWalletId : {"W2"},
   amount : ValidAmounts, reference : {"R1"}, description : {""},
          idemKey : IdemKeys]
    \cup [sourceWalletId : {"W2"}, destinationWalletId : {"W1"},
          amount : ValidAmounts, reference : {"R1"}, description : {""},
          idemKey : IdemKeys]
    \cup [sourceWalletId : {"W1"}, destinationWalletId : {"W1", "W3"},
          amount : {800}, reference : {"R1"}, description : {""},
          idemKey : {"K1"}]
    \cup [sourceWalletId : {"W3"}, destinationWalletId : {"W1"},
          amount : {800}, reference : {"R1"}, description : {""},
          idemKey : {""}]
    \cup [sourceWalletId : {""}, destinationWalletId : {"W2"},
          amount : {800}, reference : {"R1"}, description : {""},
          idemKey : {"K1"}]
    \cup [sourceWalletId : {"W1"}, destinationWalletId : {""},
          amount : {800}, reference : {"R1"}, description : {""},
          idemKey : {""}]
    \cup [sourceWalletId : {"W1"}, destinationWalletId : {"W2"},
          amount : InvalidAmounts, reference : {"R1"}, description : {""},
          idemKey : {"K1"}]
    \cup [sourceWalletId : {"W1"}, destinationWalletId : {"W2"},
          amount : {800}, reference : {""}, description : {""},
          idemKey : {"K1"}]

(***************************************************************************)
(* Helpers of server.js.                                                   *)
(***************************************************************************)
\* Number(x.toFixed(2)): x rounded to hundredths, ties away from zero.
Round2(x) ==
  IF x >= 0 THEN ((x + 5) \div 10) * 10 ELSE 0 - ((((0 - x) + 5) \div 10) * 10)

isPositiveNumber(x) == x > 0

\* db.get(coll).find({ walletId }): index of the first match, 0 if none.
WalletIndex(ws, walletId) ==
  IF \E i \in 1..Len(ws) : ws[i].walletId = walletId
  THEN CHOOSE i \in 1..Len(ws) :
         /\ ws[i].walletId = walletId
         /\ \A j \in 1..(i - 1) : ws[j].walletId # walletId
  ELSE 0

BankIndex(bs, bankId) ==
  IF \E i \in 1..Len(bs) : bs[i].bankId = bankId
  THEN CHOOSE i \in 1..Len(bs) :
         /\ bs[i].bankId = bankId
         /\ \A j \in 1..(i - 1) : bs[j].bankId # bankId
  ELSE 0

walletExistsByPhone(ws, phoneNumber) ==
  \E i \in 1..Len(ws) : ws[i].phoneNumber = phoneNumber

\* db.get("idempotency").find({ key }): index of the first match, 0 if none.
IdemIndexNever(idem, key) == 0
IdemIndexAfterFirst(idem, key) ==
  IF \E i \in 2..Len(idem) : idem[i].key = key
  THEN CHOOSE i \in 2..Len(idem) : idem[i].key = key
  ELSE 0
IdemIndex(idem, key) ==
  IF \E i \in 1..Len(idem) : idem[i].key = key
  THEN CHOOSE i \in 1..Len(idem) :
         /\ idem[i].key = key
         /\ \A j \in 1..(i - 1) : idem[j].key # key
  ELSE 0

\* The store as one value: what db.json holds after a write().
DB == [banks |-> banks, wallets |-> wallets, transactions |-> transactions,
       events |-> events, idempotency |-> idempotency]

\* pushEvent(topic, payload), applied to a store value.
pushEvent(db, t, topic, payload) ==
  [db EXCEPT !.events = Append(@, [id |-> t, topic |-> topic,
                                   payload |-> payload, createdAt |-> t])]

\* badRequest / notFound / conflict.
ErrorResponse(status, error, t) ==
  [status |-> status,
   body |-> [kind |-> "error", error |-> error, timestamp |-> t]]

\* The INSUFFICIENT_FUNDS message cites balance.toFixed(2) and amount.toFixed(2).
InsufficientResponse(balance, amount, t) ==
  [status |-> 400,
   body |-> [kind |-> "error", error |-> "INSUFFICIENT_FUNDS", timestamp |-> t,
             msgBalance |-> Round2(balance), msgAmount |-> Round2(amount)]]

\* return badRequest(...) / notFound(...) / conflict(...): the handler ends
\* there, having written nothing.
RejectAfterLogging(db, response) ==
  [writes |-> <<[db EXCEPT !.events = Append(@, [id |-> 0, topic |-> "request.failed",
                                                payload |-> response.body,
                                                createdAt |-> 0])]>>,
   resp |-> response]
Reject(db, response) == [writes |-> <<>>, resp |-> response]

NoResponse == [status |-> 0, body |-> [kind |-> "none"]]

\* The sufficiency check of debit and transfer: if (balance < amount) reject.
InsufficientFundsNever(balance, amount) == FALSE
InsufficientFundsInclusive(balance, amount) == balance <= amount
InsufficientFunds(balance, amount) == balance < amount

(***************************************************************************)
(* POST /wallet/:walletId/credit.  A handler is translated to a record     *)
(* [writes, resp]: the store after each write() it performs, in order, and *)
(* the response it sends.                                                  *)
(***************************************************************************)
TxnResponse(txn) ==
  [status |-> 200,
   body |-> [kind |-> "txn", transactionId |-> txn.transactionId,
             walletId |-> txn.walletId, type |-> txn.type, status |-> txn.status,
             amount |-> txn.amount, balanceBefore |-> txn.balanceBefore,
             balanceAfter |-> txn.balanceAfter, reference |-> txn.reference,
             timestamp |-> txn.timestamp]]

TxnEvent(txn) ==
  [transactionId |-> txn.transactionId, walletId |-> txn.walletId,
   amount |-> txn.amount, balanceBefore |-> txn.balanceBefore,
   balanceAfter |-> txn.balanceAfter, reference |-> txn.reference,
   status |-> txn.status, timestamp |-> txn.timestamp]

\* transactionId: `TXN-${Date.now()}` for credit and debit, with -D / -C
\* appended for the two records of a transfer.
MakeTxnNoSuffix(t, sfx, walletId, type, amount, before, after, reference, description) ==
  [id |-> t, transactionId |-> <<"TXN", t, "">>, walletId |-> walletId,
   type |-> type, status |-> "SUCCESS", amount |-> amount,
   balanceBefore |-> before, balanceAfter |-> after, reference |-> reference,
   description |-> description, timestamp |-> t]
MakeTxnSwapped(t, sfx, walletId, type, amount, before, after, reference, description) ==
  [id |-> t, transactionId |-> <<"TXN", t, sfx>>, walletId |-> walletId,
   type |-> type, status |-> "SUCCESS", amount |-> amount,
   balanceBefore |-> after, balanceAfter |-> before, reference |-> reference,
   description |-> description, timestamp |-> t]
MakeTxn(t, sfx, walletId, type, amount, before, after, reference, description) ==
  [id |-> t, transactionId |-> <<"TXN", t, sfx>>, walletId |-> walletId,
   type |-> type, status |-> "SUCCESS", amount |-> amount,
   balanceBefore |-> before, balanceAfter |-> after, reference |-> reference,
   description |-> description, timestamp |-> t]

CreditHandler(db, walletId, amount, reference, t) ==
  LET i == WalletIndex(db.wallets, walletId) IN
  IF i = 0 THEN Reject(db, ErrorResponse(404, "WALLET_NOT_FOUND", t))
  ELSE IF ~isPositiveNumber(amount)
  THEN Reject(db, ErrorResponse(400, "INVALID_AMOUNT", t))
  ELSE IF reference = ""
  THEN Reject(db, ErrorResponse(400, "INVALID_REQUEST", t))
  ELSE
    LET before == db.wallets[i].balance
        after == Round2(before + amount)
        db1 == [db EXCEPT !.wallets[i].balance = after]
        txn == MakeTxn(t, "", walletId, "CREDIT", amount, before, after,
                       reference, "")
        db2 == [db1 EXCEPT !.transactions = Append(@, txn)]
        db3 == pushEvent(db2, t, "wallet.credited", TxnEvent(txn))
    IN [writes |-> <<db1, db2, db3>>, resp |-> TxnResponse(txn)]

(***************************************************************************)
(* POST /wallet/:walletId/debit.                                           *)
(***************************************************************************)
DebitHandler(db, walletId, amount, reference, t) ==
  LET i == WalletIndex(db.wallets, walletId) IN
  IF i = 0 THEN Reject(db, ErrorResponse(404, "WALLET_NOT_FOUND", t))
  ELSE IF ~isPositiveNumber(amount)
  THEN Reject(db, ErrorResponse(400, "INVALID_AMOUNT", t))
  ELSE IF reference = ""
  THEN Reject(db, ErrorResponse(400, "INVALID_REQUEST", t))
  ELSE IF InsufficientFunds(db.wallets[i].balance, amount)
  THEN Reject(db, InsufficientResponse(db.wallets[i].balance, amount, t))
  ELSE
    LET before == db.wallets[i].balance
        after == Round2(before - amount)
        db1 == [db EXCEPT !.wallets[i].balance = after]
        txn == MakeTxn(t, "", walletId, "DEBIT", amount, before, after,
                       reference, "")
        db2 == [db1 EXCEPT !.transactions = Append(@, txn)]
        db3 == pushEvent(db2, t, "wallet.debited", TxnEvent(txn))
    IN [writes |-> <<db1, db2, db3>>, resp |-> TxnResponse(txn)]

(***************************************************************************)
(* POST /wallet/transfer.                                                  *)
(***************************************************************************)
\* The two balance writes of lines 675-682, each followed by write().
TransferBalanceWritesSourceOnly(db, si, di, srcAfter, dstAfter) ==
  LET db1 == [db EXCEPT !.wallets[si].balance = srcAfter] IN <<db1, db1>>
TransferBalanceWrites(db, si, di, srcAfter, dstAfter) ==
  LET db1 == [db EXCEPT !.wallets[si].balance = srcAfter]
      db2 == [db1 EXCEPT !.wallets[di].balance = dstAfter]
  IN <<db1, db2>>

\* return res.json(cached.response): the stored payload, as it is.
CachedResponseRestamped(cached, t) ==
  [status |-> 200, body |-> [cached.response EXCEPT !.timestamp = t]]
CachedResponse(cached, t) == [status |-> 200, body |-> cached.response]

\* body: the request body; idemKey: the x-idempotency-key header ("" if absent).
TransferHandler(db, body, idemKey, t) ==
  LET sourceWalletId == body.sourceWalletId
      destinationWalletId == body.destinationWalletId
      amount == body.amount
      reference == body.reference
      description == body.description
      si == WalletIndex(db.wallets, sourceWalletId)
      di == WalletIndex(db.wallets, destinationWalletId)
      ci == IdemIndex(db.idempotency, idemKey)
  IN
  IF sourceWalletId = "" \/ destinationWalletId = ""
     \/ ~isPositiveNumber(amount) \/ reference = ""
  THEN Reject(db, ErrorResponse(400, "INVALID_REQUEST", t))
  ELSE IF sourceWalletId = destinationWalletId
  THEN Reject(db, ErrorResponse(400, "INVALID_TRANSFER", t))
  ELSE IF si = 0
  THEN Reject(db, ErrorResponse(404, "WALLET_NOT_FOUND", t))
  ELSE IF di = 0
  THEN Reject(db, ErrorResponse(404, "WALLET_NOT_FOUND", t))
  ELSE IF idemKey # "" /\ ci # 0
  THEN [writes |-> <<>>, resp |-> CachedResponse(db.idempotency[ci], t)]
  ELSE IF InsufficientFunds(db.wallets[si].balance, amount)
  THEN Reject(db, InsufficientResponse(db.wallets[si].balance, amount, t))
  ELSE
    LET srcBefore == db.wallets[si].balance
        dstBefore == db.wallets[di].balance
        srcAfter == Round2(srcBefore - amount)
        dstAfter == Round2(dstBefore + amount)
        bw == TransferBalanceWrites(db, si, di, srcAfter, dstAfter)
        debitTxn == MakeTxn(t, "D", sourceWalletId, "DEBIT", amount, srcBefore,
                            srcAfter, reference, description)
        creditTxn == [MakeTxn(t, "C", destinationWalletId, "CREDIT", amount,
                              dstBefore, dstAfter, reference, description)
                      EXCEPT !.id = t + 1]
        db3 == [bw[2] EXCEPT !.transactions = Append(@, debitTxn)]
        db4 == [db3 EXCEPT !.transactions = Append(@, creditTxn)]
        response == [kind |-> "transfer", transactionId |-> <<"TRF", t>>,
                     sourceWalletId |-> sourceWalletId,
                     destinationWalletId |-> destinationWalletId,
                     amount |-> amount, status |-> "SUCCESS",
                     sourceBalanceBefore |-> srcBefore,
                     sourceBalanceAfter |-> srcAfter,
                     destinationBalanceBefore |-> dstBefore,
                     destinationBalanceAfter |-> dstAfter,
                     reference |-> reference, description |-> description,
                     timestamp |-> t]
        db5 == pushEvent(db4, t, "wallet.transfer.completed", response)
        db6 == [db5 EXCEPT !.idempotency =
                  Append(@, [id |-> t, key |-> idemKey, response |-> response,
                             createdAt |-> t])]
    IN [writes |-> IF idemKey # "" THEN <<bw[1], bw[2], db3, db4, db5, db6>>
                   ELSE <<bw[1], bw[2], db3, db4, db5>>,
        resp |-> [status |-> 200, body |-> response]]

(***************************************************************************)
(* GET /wallet/balance/:walletId.                                          *)
(***************************************************************************)
BalanceHandler(db, walletId, t) ==
  LET i == WalletIndex(db.wallets, walletId) IN
  IF i = 0 THEN Reject(db, ErrorResponse(404, "WALLET_NOT_FOUND", t))
  ELSE [writes |-> <<>>,
        resp |-> [status |-> 200,
                  body |-> [kind |-> "balance", walletId |-> db.wallets[i].walletId,
                            balance |-> db.wallets[i].balance,
                            status |-> db.wallets[i].status,
                            phoneNumber |-> db.wallets[i].phoneNumber]]]

(***************************************************************************)
(* Bank CRUD: POST, PUT, PATCH, DELETE /bank.                              *)
(***************************************************************************)
CreateBankHandler(db, bankId, t) ==
  IF bankId = ""
  THEN Reject(db, ErrorResponse(400, "INVALID_REQUEST", t))
  ELSE IF BankIndex(db.banks, bankId) # 0
  THEN Reject(db, ErrorResponse(409, "BANK_ALREADY_EXISTS", t))
  ELSE
    LET bank == [bankId |-> bankId, status |-> "ACTIVE"]
    IN [writes |-> <<[db EXCEPT !.banks = Append(@, bank)]>>,
        resp |-> [status |-> 201, body |-> [kind |-> "bank", bank |-> bank]]]

\* complete: name and currency are both supplied; status "" is an absent status.
PutBankHandler(db, bankId, complete, status, t) ==
  LET i == BankIndex(db.banks, bankId) IN
  IF i = 0 THEN Reject(db, ErrorResponse(404, "BANK_NOT_FOUND", t))
  ELSE IF ~complete
  THEN Reject(db, ErrorResponse(400, "INVALID_REQUEST", t))
  ELSE
    LET updated == [db.banks[i] EXCEPT
                      !.status = IF status # "" THEN status ELSE @]
    IN [writes |-> <<[db EXCEPT !.banks[i] = updated]>>,
        resp |-> [status |-> 200, body |-> [kind |-> "bank", bank |-> updated]]]

\* { ...bank, ...patch, bankId }: the patch's own bankId is overridden.
PatchBankHandler(db, bankId, patch, t) ==
  LET i == BankIndex(db.banks, bankId) IN
  IF i = 0 THEN Reject(db, ErrorResponse(404, "BANK_NOT_FOUND", t))
  ELSE
    LET updated == [db.banks[i] EXCEPT
                      !.status = IF "status" \in patch.has THEN patch.status ELSE @]
    IN [writes |-> <<[db EXCEPT !.banks[i] = updated]>>,
        resp |-> [status |-> 200, body |-> [kind |-> "bank", bank |-> updated]]]

\* lodash remove: every matching element goes.
RemoveBanks(bs, bankId) == SelectSeq(bs, LAMBDA b : b.bankId # bankId)

DeleteBankHandler(db, bankId, t) ==
  IF BankIndex(db.banks, bankId) = 0
  THEN Reject(db, ErrorResponse(404, "BANK_NOT_FOUND", t))
  ELSE IF \E i \in 1..Len(db.wallets) : db.wallets[i].bankId = bankId
  THEN Reject(db, ErrorResponse(409, "BANK_HAS_WALLETS", t))
  ELSE [writes |-> <<[db EXCEPT !.banks = RemoveBanks(@, bankId)]>>,
        resp |-> [status |-> 204, body |-> [kind |-> "none"]]]

(***************************************************************************)
(* Wallet CRUD: POST, PUT, PATCH, DELETE /wallet.                          *)
(***************************************************************************)
MakeWallet(walletId, bankId, phoneNumber, balance) ==
  [walletId |-> walletId, bankId |-> bankId, phoneNumber |-> phoneNumber,
   balance |-> balance, status |-> "ACTIVE"]

CreateWalletHandler(db, walletId, bankId, phoneNumber, t) ==
  IF walletId = "" \/ bankId = "" \/ phoneNumber = ""
  THEN Reject(db, ErrorResponse(400, "INVALID_REQUEST", t))
  ELSE IF BankIndex(db.banks, bankId) = 0
  THEN Reject(db, ErrorResponse(404, "BANK_NOT_FOUND", t))
  ELSE IF WalletIndex(db.wallets, walletId) # 0
  THEN Reject(db, ErrorResponse(409, "WALLET_ALREADY_EXISTS", t))
  ELSE IF walletExistsByPhone(db.wallets, phoneNumber)
  THEN Reject(db, ErrorResponse(409, "WALLET_PHONE_ALREADY_EXISTS", t))
  ELSE
    LET wallet == MakeWallet(walletId, bankId, phoneNumber, 0)
        db1 == [db EXCEPT !.wallets = Append(@, wallet)]
        db2 == pushEvent(db1, t, "wallet.created",
                         [walletId |-> walletId, phoneNumber |-> phoneNumber,
                          initialBalance |-> 0, status |-> wallet.status])
    IN [writes |-> <<db1, db2>>,
        resp |-> [status |-> 201, body |-> [kind |-> "wallet", wallet |-> wallet]]]

\* The PUT body: bankId, phoneNumber and status are required; balance is taken
\* when it is a number (hasBalance) and kept otherwise.
PutWalletBalance(wallet, hasBalance, balance) ==
  IF hasBalance THEN balance ELSE wallet.balance

PutWalletHandler(db, walletId, body, t) ==
  LET i == WalletIndex(db.wallets, walletId) IN
  IF i = 0 THEN Reject(db, ErrorResponse(404, "WALLET_NOT_FOUND", t))
  ELSE IF body.bankId = "" \/ body.phoneNumber = "" \/ body.status = ""
  THEN Reject(db, ErrorResponse(400, "INVALID_REQUEST", t))
  ELSE IF BankIndex(db.banks, body.bankId) = 0
  THEN Reject(db, ErrorResponse(404, "BANK_NOT_FOUND", t))
  ELSE IF body.phoneNumber # db.wallets[i].phoneNumber
          /\ walletExistsByPhone(db.wallets, body.phoneNumber)
  THEN Reject(db, ErrorResponse(409, "WALLET_PHONE_ALREADY_EXISTS", t))
  ELSE
    LET updated == [db.wallets[i] EXCEPT
                      !.bankId = body.bankId,
                      !.phoneNumber = body.phoneNumber,
                      !.status = body.status,
                      !.balance = PutWalletBalance(db.wallets[i], body.hasBalance,
                                                   body.balance)]
    IN [writes |-> <<[db EXCEPT !.wallets[i] = updated]>>,
        resp |-> [status |-> 200, body |-> [kind |-> "wallet", wallet |-> updated]]]

\* { ...wallet, ...patch, walletId }: every field the patch has (patch.has)
\* replaces the wallet's, the walletId excepted.
PatchWalletHandler(db, walletId, patch, t) ==
  LET i == WalletIndex(db.wallets, walletId) IN
  IF i = 0 THEN Reject(db, ErrorResponse(404, "WALLET_NOT_FOUND", t))
  ELSE IF "bankId" \in patch.has /\ patch.bankId # ""
          /\ BankIndex(db.banks, patch.bankId) = 0
  THEN Reject(db, ErrorResponse(404, "BANK_NOT_FOUND", t))
  ELSE IF "phoneNumber" \in patch.has /\ patch.phoneNumber # ""
          /\ patch.phoneNumber # db.wallets[i].phoneNumber
          /\ walletExistsByPhone(db.wallets, patch.phoneNumber)
  THEN Reject(db, ErrorResponse(409, "WALLET_PHONE_ALREADY_EXISTS", t))
  ELSE
    LET updated == [db.wallets[i] EXCEPT
                      !.bankId = IF "bankId" \in patch.has THEN patch.bankId ELSE @,
                      !.phoneNumber = IF "phoneNumber" \in patch.has
                                      THEN patch.phoneNumber ELSE @,
                      !.balance = IF "balance" \in patch.has
                                  THEN patch.balance ELSE @]
    IN [writes |-> <<[db EXCEPT !.wallets[i] = updated]>>,
        resp |-> [status |-> 200, body |-> [kind |-> "wallet", wallet |-> updated]]]

DeleteWalletHandlerUnguarded(db, walletId, t) ==
  LET i == WalletIndex(db.wallets, walletId) IN
  IF i = 0 THEN Reject(db, ErrorResponse(404, "WALLET_NOT_FOUND", t))
  ELSE
    LET db1 == [db EXCEPT !.transactions =
                  SelectSeq(@, LAMBDA x : x.walletId # walletId)]
        db2 == [db1 EXCEPT !.wallets =
                  SelectSeq(@, LAMBDA w : w.walletId # walletId)]
    IN [writes |-> <<db1, db2>>, resp |-> [status |-> 204, body |-> [kind |-> "none"]]]

DeleteWalletHandler(db, walletId, t) ==
  LET i == WalletIndex(db.wallets, walletId) IN
  IF i = 0 THEN Reject(db, ErrorResponse(404, "WALLET_NOT_FOUND", t))
  ELSE IF db.wallets[i].balance # 0
  THEN Reject(db, ErrorResponse(409, "WALLET_BALANCE_NOT_ZERO", t))
  ELSE
    LET db1 == [db EXCEPT !.transactions =
                  SelectSeq(@, LAMBDA x : x.walletId # walletId)]
        db2 == [db1 EXCEPT !.wallets =
                  SelectSeq(@, LAMBDA w : w.walletId # walletId)]
    IN [writes |-> <<db1, db2>>, resp |-> [status |-> 204, body |-> [kind |-> "none"]]]

(***************************************************************************)
(* Running a handler: the store becomes the result of its last write.      *)
(***************************************************************************)
SetStore(db) ==
  /\ banks' = db.banks
  /\ wallets' = db.wallets
  /\ transactions' = db.transactions
  /\ events' = db.events
  /\ idempotency' = db.idempotency

Final(h) == IF h.writes = <<>> THEN DB ELSE h.writes[Len(h.writes)]

\* The handler runs to completion: its writes are made and its response sent.
Handle(op, body, h) ==
  /\ up
  /\ handled < MaxRequests
  /\ handled' = handled + 1
  /\ req' = [op |-> op, body |-> body]
  /\ \E r \in {h} : SetStore(Final(r)) /\ resp' = r.resp
  /\ UNCHANGED <<now, up>>

\* A request handled as soon as it arrives.
Run(op, body, h) == Handle(op, body, h) /\ UNCHANGED inflight

Credit(r) ==
  Run("credit", r, CreditHandler(DB, r.walletId, r.amount, r.reference, now))

Debit(r) ==
  Run("debit", r, DebitHandler(DB, r.walletId, r.amount, r.reference, now))

Transfer(r) ==
  Run("transfer", r,
      TransferHandler(DB, r, r.idemKey, now))

GetBalance(walletId) ==
  Run("balance", [walletId |-> walletId], BalanceHandler(DB, walletId, now))

CreateBank(bankId) ==
  Run("createBank", [bankId |-> bankId], CreateBankHandler(DB, bankId, now))

PutBank(bankId, complete, status) ==
  Run("putBank", [bankId |-> bankId, complete |-> complete, status |-> status],
      PutBankHandler(DB, bankId, complete, status, now))

PatchBank(bankId, patch) ==
  Run("patchBank", [bankId |-> bankId, patch |-> patch],
      PatchBankHandler(DB, bankId, patch, now))

DeleteBank(bankId) ==
  Run("deleteBank", [bankId |-> bankId], DeleteBankHandler(DB, bankId, now))

CreateWallet(r) ==
  Run("createWallet", r,
      CreateWalletHandler(DB, r.walletId, r.bankId, r.phoneNumber, now))

PutWallet(walletId, body) ==
  Run("putWallet", [walletId |-> walletId, body |-> body],
      PutWalletHandler(DB, walletId, body, now))

PatchWallet(walletId, patch) ==
  Run("patchWallet", [walletId |-> walletId, patch |-> patch],
      PatchWalletHandler(DB, walletId, patch, now))

DeleteWallet(walletId) ==
  Run("deleteWallet", [walletId |-> walletId],
      DeleteWalletHandler(DB, walletId, now))

(***************************************************************************)
(* The process stopping while a handler runs: the store keeps the writes   *)
(* already made (each write() rewrites db.json) and no response is sent.   *)
(* db.json is then what a restarted server loads.                          *)
(***************************************************************************)
StopDuring(op, body, h) ==
  /\ up
  /\ h.writes # <<>>
  /\ handled < MaxRequests
  /\ handled' = handled + 1
  /\ req' = [op |-> op, body |-> body]
  /\ \E k \in 0..Len(h.writes) :
       SetStore(IF k = 0 THEN DB ELSE h.writes[k])
  /\ resp' = NoResponse
  /\ up' = FALSE
  /\ now' = now
  /\ inflight' = inflight

StopDuringCredit(r) ==
  StopDuring("credit", r,
             CreditHandler(DB, r.walletId, r.amount, r.reference, now))

StopDuringDebit(r) ==
  StopDuring("debit", r, DebitHandler(DB, r.walletId, r.amount, r.reference, now))

StopDuringTransfer(r) ==
  StopDuring("transfer", r, TransferHandler(DB, r, r.idemKey, now))

\* Date.now() advances between requests.
Tick ==
  /\ up
  /\ now < MaxClock
  /\ now' = now + 1
  /\ UNCHANGED <<store, req, resp, up, handled, inflight>>

(***************************************************************************)
(* Concurrent clients: each connection sends a request and waits for its   *)
(* response; the event loop takes the requests received one at a time, in  *)
(* any order of arrival, and runs the handler of each to completion.       *)
(***************************************************************************)
Clients == {"c1", "c2"}

NoRequest == [op |-> "none", body |-> <<>>]

\* Requests on the same wallet (W1) and on overlapping wallets (W1, W2), one
\* malformed and one on a wallet that does not exist.
ServeRequests ==
  [op : {"credit", "debit"},
   body : [walletId : {"W1"}, amount : {800}, reference : {"R1"}]]
    \cup [op : {"debit"},
          body : [walletId : {"W2"}, amount : {0}, reference : {"R1"}]]
    \cup [op : {"transfer"},
          body : [sourceWalletId : {"W1"}, destinationWalletId : {"W2"},
                  amount : {800}, reference : {"R1"}, description : {""},
                  idemKey : {"K1"}]]
    \cup [op : {"transfer"},
          body : [sourceWalletId : {"W2"}, destinationWalletId : {"W1"},
                  amount : {800}, reference : {"R1"}, description : {""},
                  idemKey : {""}]]
    \cup [op : {"balance"}, body : [walletId : {"W1", "W3"}]]

\* The route a request is dispatched to.
HandlerOf(m) ==
  CASE m.op = "credit" ->
         CreditHandler(DB, m.body.walletId, m.body.amount, m.body.reference, now)
    [] m.op = "debit" ->
         DebitHandler(DB, m.body.walletId, m.body.amount, m.body.reference, now)
    [] m.op = "transfer" -> TransferHandler(DB, m.body, m.body.idemKey, now)
    [] m.op = "balance" -> BalanceHandler(DB, m.body.walletId, now)

InFlight == {c \in Clients : inflight[c] # NoRequest}

\* A client sends a request on its connection.
Send(c, m) ==
  /\ up
  /\ inflight[c] = NoRequest
  /\ handled + Cardinality(InFlight) < MaxRequests
  /\ inflight' = [inflight EXCEPT ![c] = m]
  /\ UNCHANGED <<store, now, req, resp, up, handled>>

\* res.json(...) / res.status(...).json(...): the response ends the request.
RespondNever(fl, c) == fl
Respond(fl, c) == [fl EXCEPT ![c] = NoRequest]

\* The event loop takes up the request of connection c.
Serve(c) ==
  /\ inflight[c] # NoRequest
  /\ Handle(inflight[c].op, inflight[c].body, HandlerOf(inflight[c]))
  /\ inflight' = Respond(inflight, c)

(***************************************************************************)
(* Initial store.                                                          *)
(***************************************************************************)
\* One bank and two funded wallets (balances 1.00 and 0.80), empty logs.
InitWallets ==
  <<MakeWallet("W1", "B1", "P1", 1000), MakeWallet("W2", "B1", "P2", 800)>>

Init ==
  /\ banks = <<[bankId |-> "B1", status |-> "ACTIVE"]>>
  /\ wallets = InitWallets
  /\ transactions = <<>>
  /\ events = <<>>
  /\ idempotency = <<>>
  /\ now = 0
  /\ req = [op |-> "none", body |-> <<>>]
  /\ resp = NoResponse
  /\ up = TRUE
  /\ handled = 0
  /\ inflight = [c \in Clients |-> NoRequest]

LedgerNext ==
  \/ \E r \in CreditRequests : Credit(r)
  \/ \E r \in CreditRequests : Debit(r)
  \/ \E r \in TransferRequests : Transfer(r)
  \/ \E w \in WalletIds : GetBalance(w)
  \/ Tick

PutWalletBodies ==
  [bankId : {"B1", "B2"}, phoneNumber : {"P1"}, status : {"ACTIVE"},
   hasBalance : {FALSE}, balance : {0}]
    \cup [bankId : {"B1"}, phoneNumber : {"P2", "P3"}, status : {"ACTIVE"},
          hasBalance : {FALSE}, balance : {0}]
    \cup [bankId : {"B1"}, phoneNumber : {"P1"}, status : {"ACTIVE"},
          hasBalance : {TRUE}, balance : PutBalances]
    \cup [bankId : {"B1"}, phoneNumber : {"P1"}, status : {""},
          hasBalance : {FALSE}, balance : {0}]

WalletPatches ==
  [has : {{"balance"}}, bankId : {""}, phoneNumber : {""}, balance : PutBalances]
    \cup [has : {{"phoneNumber"}}, bankId : {""}, phoneNumber : {"P2", "P3", ""},
          balance : {0}]
    \cup [has : {{"bankId"}}, bankId : BankIds \cup {""}, phoneNumber : {""},
          balance : {0}]

BankPatches == [has : {{}, {"status"}}, status : {"ACTIVE"}]

CreateWalletRequests ==
  [walletId : {"W3"}, bankId : BankIds, phoneNumber : {"P1", "P3"}]
    \cup [walletId : {"", "W1"}, bankId : {"B1"}, phoneNumber : {"P3"}]
    \cup [walletId : {"W3"}, bankId : {"B1"}, phoneNumber : {""}]

CrudNext ==
  \/ \E b \in BankIds \cup {""} : CreateBank(b)
  \/ \E b \in BankIds, c \in BOOLEAN : PutBank(b, c, "ACTIVE")
  \/ \E b \in BankIds, p \in BankPatches : PatchBank(b, p)
  \/ \E b \in BankIds : DeleteBank(b)
  \/ \E r \in CreateWalletRequests : CreateWallet(r)
  \/ \E w \in {"W1", "W3"}, body \in PutWalletBodies : PutWallet(w, body)
  \/ \E w \in {"W1", "W3"}, p \in WalletPatches : PatchWallet(w, p)
  \/ \E w \in WalletIds : DeleteWallet(w)

StopNext ==
  \/ \E r \in CreditRequests : StopDuringCredit(r)
  \/ \E r \in CreditRequests : StopDuringDebit(r)
  \/ \E r \in TransferRequests : StopDuringTransfer(r)

Next == LedgerNext \/ CrudNext

Spec == Init /\ [][Next]_vars

LedgerSpec == Init /\ [][LedgerNext]_vars

StopNextOrLedger == LedgerNext \/ StopNext

StopSpec == Init /\ [][StopNextOrLedger]_vars

ServeNext ==
  \/ \E c \in Clients, m \in ServeRequests : Send(c, m)
  \/ \E c \in Clients : Serve(c)
  \/ Tick

\* The event loop leaves no received request waiting for ever.
ServeSpec ==
  Init /\ [][ServeNext]_vars /\ \A c \in Clients : WF_vars(Serve(c))

(***************************************************************************)
(* Properties.                                                             *)
(***************************************************************************)
HasWallet(ws, walletId) == \E i \in 1..Len(ws) : ws[i].walletId = walletId

BalanceOf(ws, walletId) ==
  ws[CHOOSE i \in 1..Len(ws) : ws[i].walletId = walletId].balance

HasKey(idem, key) == \E i \in 1..Len(idem) : idem[i].key = key

RecordOf(idem, key) == idem[CHOOSE i \in 1..Len(idem) : idem[i].key = key]

IsPrefix(a, b) == Len(a) <= Len(b) /\ \A i \in 1..Len(a) : a[i] = b[i]

RECURSIVE SumAmounts(_, _, _)
SumAmounts(txns, walletId, type) ==
  IF txns = <<>> THEN 0
  ELSE (IF Head(txns).walletId = walletId /\ Head(txns).type = type
        THEN Head(txns).amount ELSE 0)
       + SumAmounts(Tail(txns), walletId, type)

\* This step takes up a request of the given kind (req' is that request and
\* resp' the response to it).
Handles(op) == handled' = handled + 1 /\ req'.op = op

\* C1: starting from non-negative balances, after any sequence of credit,
\* debit and transfer requests every wallet's balance is >= 0.
C1_BalancesNonNegative == \A i \in 1..Len(wallets) : wallets[i].balance >= 0

\* A debit of a wallet's whole balance has just succeeded.
C1_Witness ==
  /\ req.op = "debit"
  /\ resp.status = 200
  /\ resp.body.balanceAfter = 0
  /\ BalanceOf(wallets, req.body.walletId) = 0

\* C2: the amounts of the debits and outgoing transfers that succeed on a
\* wallet never sum to more than what was available on it (its initial
\* balance plus what was credited to it).
C2_NoOverspend ==
  \A i \in 1..Len(InitWallets) :
    SumAmounts(transactions, InitWallets[i].walletId, "DEBIT")
      <= InitWallets[i].balance
           + SumAmounts(transactions, InitWallets[i].walletId, "CREDIT")

\* C3: after any transfer request the store shows either none of the
\* transfer's two balance writes or both of them, so no other request sees
\* the source debited without the destination credited, or the reverse.
C3_TransferWritesTogether ==
  [][Handles("transfer") =>
       \/ wallets' = wallets
       \/ /\ HasWallet(wallets, req'.body.sourceWalletId)
          /\ HasWallet(wallets, req'.body.destinationWalletId)
          /\ BalanceOf(wallets', req'.body.sourceWalletId)
               = Round2(BalanceOf(wallets, req'.body.sourceWalletId)
                          - req'.body.amount)
          /\ BalanceOf(wallets', req'.body.destinationWalletId)
               = Round2(BalanceOf(wallets, req'.body.destinationWalletId)
                          + req'.body.amount)]_vars

\* A transfer has just moved money: both balances are the ones it reports.
C3_Witness ==
  /\ req.op = "transfer"
  /\ resp.status = 200
  /\ resp.body.sourceBalanceAfter # resp.body.sourceBalanceBefore
  /\ resp.body.destinationBalanceAfter # resp.body.destinationBalanceBefore
  /\ BalanceOf(wallets, req.body.sourceWalletId) = resp.body.sourceBalanceAfter
  /\ BalanceOf(wallets, req.body.destinationWalletId)
       = resp.body.destinationBalanceAfter

\* C4: a successful transfer of a from A to B leaves A.balance at its previous
\* value minus a, B.balance at its previous value plus a and every other
\* wallet unchanged (so the sum of the balances is unchanged).
C4_TransferExact ==
  [][(Handles("transfer") /\ transactions' # transactions) =>
       wallets' = [wallets EXCEPT
                     ![WalletIndex(wallets, req'.body.sourceWalletId)].balance =
                        @ - req'.body.amount,
                     ![WalletIndex(wallets, req'.body.destinationWalletId)].balance =
                        @ + req'.body.amount]]_vars

\* C5: once a transfer with key k has succeeded, its response is what the
\* idempotency record of k holds, that record never changes, and the same
\* request sent again with k returns exactly that response and changes no
\* balance, no transaction record and no idempotency record.
C5_ReplayIdentical ==
  [][/\ IsPrefix(idempotency, idempotency')
     /\ Handles("transfer") =>
          /\ idempotency' # idempotency =>
               /\ req'.body.idemKey # ""
               /\ ~HasKey(idempotency, req'.body.idemKey)
               /\ HasKey(idempotency', req'.body.idemKey)
               /\ RecordOf(idempotency', req'.body.idemKey).response = resp'.body
          /\ (/\ HasKey(idempotency, req'.body.idemKey)
              /\ LET first == RecordOf(idempotency, req'.body.idemKey).response IN
                   /\ first.sourceWalletId = req'.body.sourceWalletId
                   /\ first.destinationWalletId = req'.body.destinationWalletId
                   /\ first.amount = req'.body.amount
                   /\ first.reference = req'.body.reference)
             => /\ resp'.status = 200
                /\ resp'.body = RecordOf(idempotency, req'.body.idemKey).response
                /\ UNCHANGED store]_vars

\* The transfer of key K1 has been sent again and answered at a later clock
\* reading, after another operation changed the source wallet's balance.
C5_Witness ==
  /\ req.op = "transfer"
  /\ req.body.idemKey = "K1"
  /\ resp.status = 200
  /\ resp.body.timestamp < now
  /\ RecordOf(idempotency, "K1").response = resp.body
  /\ Len(transactions) = 3
  /\ BalanceOf(wallets, req.body.sourceWalletId) # resp.body.sourceBalanceAfter

\* C6: a transfer request that passes input validation and carries a key
\* with a cached result returns that result and changes nothing, whatever
\* the state of the wallets.
C6_CacheBeforeWallets ==
  [][(/\ Handles("transfer")
      /\ req'.body.sourceWalletId # "" /\ req'.body.destinationWalletId # ""
      /\ req'.body.amount > 0 /\ req'.body.reference # ""
      /\ req'.body.sourceWalletId # req'.body.destinationWalletId
      /\ HasKey(idempotency, req'.body.idemKey))
     => /\ resp'.status = 200
        /\ resp'.body = RecordOf(idempotency, req'.body.idemKey).response
        /\ UNCHANGED store]_vars

\* C7: of the transfer requests carrying a key k at most one updates
\* balances and appends transaction records: the one that does leaves a
\* record of k behind, records stay, and a request that finds a record of k
\* changes neither balances nor transaction records.
C7_OneMutationPerKey ==
  [][/\ \A i \in 1..Len(idempotency) : HasKey(idempotency', idempotency[i].key)
     /\ (Handles("transfer") /\ req'.body.idemKey # "") =>
          /\ HasKey(idempotency, req'.body.idemKey) =>
               (wallets' = wallets /\ transactions' = transactions)
          /\ (wallets' # wallets \/ transactions' # transactions) =>
               HasKey(idempotency', req'.body.idemKey)]_vars

\* A second request with the key of a recorded transfer has been answered
\* with success and the log still holds that one transfer's two records only.
C7_Witness ==
  /\ handled >= 2
  /\ req.op = "transfer"
  /\ req.body.idemKey = "K1"
  /\ resp.status = 200
  /\ Len(transactions) = 2
  /\ Len(idempotency) = 1
  /\ BalanceOf(wallets, req.body.sourceWalletId) = resp.body.sourceBalanceAfter

\* C8: a credit, debit or transfer request that fails leaves the whole store
\* unchanged: balances, transaction records, idempotency records, events.
C8_FailureChangesNothing ==
  [][((Handles("credit") \/ Handles("debit") \/ Handles("transfer"))
        /\ resp'.status # 200)
     => UNCHANGED store]_vars

\* A debit has just been refused for insufficient funds after an earlier
\* operation succeeded.
C8_Witness ==
  /\ req.op = "debit"
  /\ resp.status = 400
  /\ resp.body.error = "INSUFFICIENT_FUNDS"
  /\ Len(transactions) >= 1

\* C9: whatever the point at which the process stops, the persisted store
\* holds all the writes of an operation or none: every wallet's balance is
\* the balanceAfter of its last transaction record (its initial balance if
\* it has none), every transfer DEBIT record is followed by its CREDIT
\* record, and every operation recorded has its event.
LastTxnOf(txns, walletId) ==
  txns[CHOOSE i \in 1..Len(txns) :
         /\ txns[i].walletId = walletId
         /\ \A j \in (i + 1)..Len(txns) : txns[j].walletId # walletId]

C9_PersistedAllOrNothing ==
  /\ \A i \in 1..Len(InitWallets) :
       LET w == InitWallets[i].walletId IN
         BalanceOf(wallets, w) =
           IF \E j \in 1..Len(transactions) : transactions[j].walletId = w
           THEN LastTxnOf(transactions, w).balanceAfter
           ELSE InitWallets[i].balance
  /\ \A i \in 1..Len(transactions) :
       transactions[i].transactionId[3] = "D" =>
         /\ i < Len(transactions)
         /\ transactions[i + 1].transactionId[3] = "C"
         /\ transactions[i + 1].reference = transactions[i].reference
  /\ Len(events) =
       Cardinality({i \in 1..Len(transactions) :
                      transactions[i].transactionId[3] # "C"})

\* C10: only credit, debit and transfer change the balance of an existing
\* wallet: wallet creation, PUT, PATCH and the bank operations leave it.
C10_OnlyLedgerChangesBalance ==
  [][\A w \in WalletIds :
       (/\ HasWallet(wallets, w)
        /\ HasWallet(wallets', w)
        /\ BalanceOf(wallets', w) # BalanceOf(wallets, w))
       => req'.op \in {"credit", "debit", "transfer"}]_vars

\* C11: the transaction log is append-only: no operation of the server
\* (ledger, bank or wallet) modifies or removes a record once appended, so
\* the log before a step is a prefix of the log after it.
C11_AppendOnly == [][IsPrefix(transactions, transactions')]_vars

\* C12: no two transaction records of the log have the same transactionId,
\* also when the operations that built them read the same clock value.
C12_UniqueTransactionIds ==
  \A i, j \in 1..Len(transactions) :
    i # j => transactions[i].transactionId # transactions[j].transactionId

\* C13: a transfer that is carried out (answered with success and not from
\* the idempotency cache) appends exactly two records, a DEBIT on the source
\* and then a CREDIT on the destination, with the request's amount and
\* reference and different transactionIds, and the balances of the
\* TransferResult are the balanceBefore/balanceAfter of those records; a
\* successful credit or debit appends exactly one record, of its own type.
C13_TransferTwoRecords ==
  [][/\ (/\ Handles("transfer")
         /\ resp'.status = 200
         /\ ~HasKey(idempotency, req'.body.idemKey))
        => /\ Len(transactions') = Len(transactions) + 2
           /\ IsPrefix(transactions, transactions')
           /\ LET d == transactions'[Len(transactions) + 1]
                  c == transactions'[Len(transactions) + 2]
              IN /\ d.type = "DEBIT" /\ d.walletId = req'.body.sourceWalletId
                 /\ c.type = "CREDIT"
                 /\ c.walletId = req'.body.destinationWalletId
                 /\ d.amount = req'.body.amount /\ c.amount = req'.body.amount
                 /\ d.reference = req'.body.reference
                 /\ c.reference = req'.body.reference
                 /\ d.transactionId # c.transactionId
                 /\ resp'.body.sourceBalanceBefore = d.balanceBefore
                 /\ resp'.body.sourceBalanceAfter = d.balanceAfter
                 /\ resp'.body.destinationBalanceBefore = c.balanceBefore
                 /\ resp'.body.destinationBalanceAfter = c.balanceAfter
     /\ ((Handles("credit") \/ Handles("debit")) /\ resp'.status = 200)
        => /\ Len(transactions') = Len(transactions) + 1
           /\ IsPrefix(transactions, transactions')
           /\ LET x == transactions'[Len(transactions')]
              IN /\ x.type = (IF req'.op = "credit" THEN "CREDIT" ELSE "DEBIT")
                 /\ x.walletId = req'.body.walletId
                 /\ x.amount = req'.body.amount
                 /\ x.transactionId = resp'.body.transactionId]_vars

\* A transfer has just been carried out after a credit: the log holds the
\* credit's record and then the transfer's DEBIT and CREDIT records, whose
\* balances are the ones the TransferResult reports.
C13_Witness ==
  /\ req.op = "transfer"
  /\ resp.status = 200
  /\ handled = 2
  /\ Len(transactions) = 3
  /\ transactions[2].type = "DEBIT"
  /\ transactions[3].type = "CREDIT"
  /\ transactions[2].transactionId # transactions[3].transactionId
  /\ resp.body.sourceBalanceAfter = transactions[2].balanceAfter
  /\ resp.body.destinationBalanceAfter = transactions[3].balanceAfter
  /\ resp.body.sourceBalanceAfter # resp.body.sourceBalanceBefore

\* C14: every transaction record of the log has status SUCCESS, type CREDIT
\* or DEBIT, amount > 0, balanceAfter equal to balanceBefore + amount
\* (CREDIT) or balanceBefore - amount (DEBIT) rounded to two decimals, and
\* balanceAfter >= 0.
C14_RecordWellFormed ==
  \A i \in 1..Len(transactions) :
    LET x == transactions[i] IN
      /\ x.status = "SUCCESS"
      /\ x.type \in {"CREDIT", "DEBIT"}
      /\ x.amount > 0
      /\ x.balanceAfter = (IF x.type = "CREDIT"
                           THEN Round2(x.balanceBefore + x.amount)
                           ELSE Round2(x.balanceBefore - x.amount))
      /\ x.balanceAfter >= 0

\* C15: a debit on an existing wallet with a valid amount and a reference
\* fails with INSUFFICIENT_FUNDS if and only if the wallet's balance is
\* strictly lower than the amount, and succeeds otherwise; a debit of exactly
\* the whole balance leaves the balance at 0; the failure message cites the
\* wallet's current balance.
C15_InsufficientIffLower ==
  [][(/\ Handles("debit")
      /\ HasWallet(wallets, req'.body.walletId)
      /\ req'.body.amount > 0
      /\ req'.body.reference # "")
     => LET balance == BalanceOf(wallets, req'.body.walletId)
            amount == req'.body.amount
        IN /\ balance < amount
                => /\ resp'.status = 400
                   /\ resp'.body.error = "INSUFFICIENT_FUNDS"
                   /\ resp'.body.msgBalance = balance
           /\ balance >= amount => resp'.status = 200
           /\ balance = amount => BalanceOf(wallets', req'.body.walletId) = 0]_vars

\* A debit has just been refused on a wallet emptied by an earlier debit of
\* its whole balance, and the message cites the balance 0.
C15_Witness ==
  /\ req.op = "debit"
  /\ resp.status = 400
  /\ resp.body.error = "INSUFFICIENT_FUNDS"
  /\ resp.body.msgBalance = 0
  /\ BalanceOf(wallets, req.body.walletId) = 0
  /\ \E i \in 1..Len(transactions) :
       /\ transactions[i].walletId = req.body.walletId
       /\ transactions[i].type = "DEBIT"
       /\ transactions[i].amount = transactions[i].balanceBefore
       /\ transactions[i].balanceAfter = 0

\* C16: a successful credit of an amount on a wallet followed by a successful
\* debit of the same amount, with no other operation on that wallet in
\* between (the credit's record is the wallet's last one and the balance is
\* still the one it left), leaves the balance at its value before the credit.
C16_CreditDebitRoundTrip ==
  [][(/\ Handles("debit")
      /\ resp'.status = 200
      /\ \E i \in 1..Len(transactions) :
           transactions[i].walletId = req'.body.walletId
      /\ LET c == LastTxnOf(transactions, req'.body.walletId)
         IN /\ c.type = "CREDIT"
            /\ c.transactionId[3] = ""
            /\ c.amount = req'.body.amount
            /\ c.balanceAfter = BalanceOf(wallets, req'.body.walletId))
     => BalanceOf(wallets', req'.body.walletId)
          = LastTxnOf(transactions, req'.body.walletId).balanceBefore]_vars

\* C17: the idempotency store holds at most one record per key; a record is
\* created only by a successful transfer that carried the key (never by a
\* failed transfer nor by a request without a key), it holds that transfer's
\* response, and once created it is never changed, overwritten or removed.
C17_FirstWriteWins ==
  [][/\ IsPrefix(idempotency, idempotency')
     /\ \A i, j \in 1..Len(idempotency') :
          i # j => idempotency'[i].key # idempotency'[j].key
     /\ idempotency' # idempotency
          => /\ Handles("transfer")
             /\ resp'.status = 200
             /\ req'.body.idemKey # ""
             /\ transactions' # transactions
             /\ Len(idempotency') = Len(idempotency) + 1
             /\ idempotency'[Len(idempotency')].key = req'.body.idemKey
             /\ idempotency'[Len(idempotency')].response = resp'.body]_vars

\* A transfer without a key and a transfer with key K1 have both been carried
\* out (four records in the log) and a third request has been answered: the
\* store holds the one record of K1.
C17_Witness ==
  /\ handled = 3
  /\ req.op = "transfer"
  /\ Len(transactions) = 4
  /\ Len(idempotency) = 1
  /\ idempotency[1].key = "K1"
  /\ idempotency[1].response.transactionId = <<"TRF", idempotency[1].createdAt>>

\* C18: every credit, debit, transfer and get-balance request that the
\* server has received is eventually answered, by exactly one response that
\* is a success result or a typed error, and concurrent requests on the same
\* or on overlapping wallets never keep one another waiting for ever.
C18_EveryRequestAnswered ==
  /\ [][/\ \A c \in Clients :
             (inflight[c] # NoRequest /\ inflight'[c] # inflight[c])
               => /\ inflight'[c] = NoRequest
                  /\ handled' = handled + 1
                  /\ req' = inflight[c]
                  /\ resp'.status \in {200, 400, 404}
                  /\ resp'.body.kind \in
                       (IF resp'.status = 200
                        THEN {"txn", "transfer", "balance"} ELSE {"error"})
        /\ handled' # handled
             => Cardinality({c \in Clients : /\ inflight[c] # NoRequest
                                             /\ inflight'[c] = NoRequest}) = 1]_vars
  /\ \A c \in Clients : (inflight[c] # NoRequest) ~> (inflight[c] = NoRequest)

\* A transfer has just been answered with success while the opposite
\* transfer, on the same two wallets, is waiting on the other connection.
C18_Witness ==
  /\ req.op = "transfer"
  /\ resp.status = 200
  /\ \E c \in Clients :
       /\ inflight[c].op = "transfer"
       /\ inflight[c].body.sourceWalletId = req.body.destinationWalletId
       /\ inflight[c].body.destinationWalletId = req.body.sourceWalletId

\* C19: after any sequence of wallet create, PUT and PATCH requests no two
\* wallets have the same walletId and no two wallets have the same phone
\* number, and a request answered with a conflict error changes nothing.
C19_WalletKeysUnique ==
  [][/\ \A i, j \in 1..Len(wallets') :
          i # j => /\ wallets'[i].walletId # wallets'[j].walletId
                   /\ wallets'[i].phoneNumber # wallets'[j].phoneNumber
     /\ ((Handles("createWallet") \/ Handles("putWallet") \/ Handles("patchWallet"))
           /\ resp'.status = 409)
        => UNCHANGED store]_vars

RECURSIVE SumBalances(_)
SumBalances(ws) == IF ws = <<>> THEN 0 ELSE Head(ws).balance + SumBalances(Tail(ws))

\* C20: a wallet delete request removes the wallet, and nothing else from the
\* wallets, only when its balance is exactly 0; when the balance is not 0 it
\* fails with WALLET_BALANCE_NOT_ZERO and leaves the wallet, its balance and
\* its transaction records as they are; a delete never changes the sum of all
\* balances.
C20_DeleteOnlyAtZero ==
  [][Handles("deleteWallet") =>
       LET w == req'.body.walletId IN
         /\ ~HasWallet(wallets, w) => (resp'.status = 404 /\ UNCHANGED store)
         /\ (HasWallet(wallets, w) /\ BalanceOf(wallets, w) # 0)
              => /\ resp'.status = 409
                 /\ resp'.body.error = "WALLET_BALANCE_NOT_ZERO"
                 /\ UNCHANGED store
         /\ (HasWallet(wallets, w) /\ BalanceOf(wallets, w) = 0)
              => /\ resp'.status = 204
                 /\ wallets' = SelectSeq(wallets, LAMBDA x : x.walletId # w)
         /\ SumBalances(wallets') = SumBalances(wallets)]_vars

\* A wallet emptied by a debit of its whole balance has just been deleted,
\* and the other wallet still holds its balance.
C20_Witness ==
  /\ req.op = "deleteWallet"
  /\ resp.status = 204
  /\ ~HasWallet(wallets, req.body.walletId)
  /\ \E i \in 1..Len(events) :
       /\ events[i].topic = "wallet.debited"
       /\ events[i].payload.walletId = req.body.walletId
       /\ events[i].payload.balanceAfter = 0
  /\ SumBalances(wallets) > 0

HasBank(bs, bankId) == \E i \in 1..Len(bs) : bs[i].bankId = bankId

\* C21: a bank that has a wallet linked to it is never deleted (the delete
\* request fails with BANK_HAS_WALLETS and changes nothing), and after any
\* sequence of bank and wallet create, PUT, PATCH and delete requests every
\* wallet's bankId names a bank that exists.
C21_WalletBankExists ==
  [][/\ \A i \in 1..Len(wallets') : HasBank(banks', wallets'[i].bankId)
     /\ (/\ Handles("deleteBank")
         /\ HasBank(banks, req'.body.bankId)
         /\ \E i \in 1..Len(wallets) : wallets[i].bankId = req'.body.bankId)
        => /\ resp'.status = 409
           /\ resp'.body.error = "BANK_HAS_WALLETS"
           /\ UNCHANGED store]_vars

\* C22: under credit, debit and transfer requests the records of each wallet
\* form a chain: the balanceBefore of a record is the balanceAfter of the
\* previous record of the same wallet in the log, and the wallet's balance
\* is the balanceAfter of its most recent record.
C22_RecordChain ==
  \A w \in WalletIds :
    LET own == SelectSeq(transactions, LAMBDA x : x.walletId = w) IN
      /\ \A k \in 2..Len(own) : own[k].balanceBefore = own[k - 1].balanceAfter
      /\ (own # <<>> /\ HasWallet(wallets, w))
           => BalanceOf(wallets, w) = own[Len(own)].balanceAfter

\* A wallet has been credited and has then sent a transfer: its second
\* record starts from the balance its first record left, which is not its
\* initial balance, and its balance is the one its second record left.
C22_Witness ==
  \E i, j \in 1..Len(transactions) :
    /\ j < i
    /\ transactions[j].walletId = transactions[i].walletId
    /\ transactions[j].transactionId[3] = ""
    /\ transactions[j].type = "CREDIT"
    /\ transactions[i].transactionId[3] = "D"
    /\ transactions[j].balanceAfter # transactions[j].balanceBefore
    /\ transactions[i].balanceBefore = transactions[j].balanceAfter
    /\ transactions[i].balanceAfter # transactions[i].balanceBefore
    /\ BalanceOf(wallets, transactions[i].walletId) = transactions[i].balanceAfter

\* C23: the idempotency key is not bound to the request body: a valid
\* transfer request between two existing wallets that carries a key with a
\* cached result, and whose source, destination, amount or reference differ
\* from those of the cached result, returns the cached response of the
\* original request and changes no balance and no transaction record.
C23_KeyNotBoundToBody ==
  [][(/\ Handles("transfer")
      /\ req'.body.amount > 0 /\ req'.body.reference # ""
      /\ req'.body.sourceWalletId # req'.body.destinationWalletId
      /\ HasWallet(wallets, req'.body.sourceWalletId)
      /\ HasWallet(wallets, req'.body.destinationWalletId)
      /\ HasKey(idempotency, req'.body.idemKey)
      /\ LET first == RecordOf(idempotency, req'.body.idemKey).response IN
           \/ first.sourceWalletId # req'.body.sourceWalletId
           \/ first.destinationWalletId # req'.body.destinationWalletId
           \/ first.amount # req'.body.amount
           \/ first.reference # req'.body.reference)
     => /\ resp'.status = 200
        /\ resp'.body = RecordOf(idempotency, req'.body.idemKey).response
        /\ wallets' = wallets
        /\ transactions' = transactions
        /\ idempotency' = idempotency]_vars

\* A transfer in the opposite direction and of another amount has been sent
\* with the key of a recorded transfer and answered with that transfer's
\* result: the log holds the first transfer's two records only.
C23_Witness ==
  /\ req.op = "transfer"
  /\ req.body.idemKey = "K1"
  /\ resp.status = 200
  /\ resp.body.sourceWalletId = req.body.destinationWalletId
  /\ resp.body.destinationWalletId = req.body.sourceWalletId
  /\ resp.body.amount # req.body.amount
  /\ Len(transactions) = 2
  /\ BalanceOf(wallets, req.body.destinationWalletId) = resp.body.sourceBalanceAfter

====
